---- MODULE Spec2Model ----
(***************************************************************************)
(* Wedge Maker (Wedge_Maker_Two_Bearings.py): processWedges reads the      *)
(* rows of a point table, parseRadius converts the radius texts, and       *)
(* createWedges builds one wedge / arcband per row in the in_memory        *)
(* workspace through createOneWedge and innerWedgeErase, then merges the   *)
(* per-row results into the output feature class.                          *)
(*                                                                         *)
(* Numbers.  A bearing is held in ticks of a quarter degree (Deg(1) = 4    *)
(* ticks), so that half of a half-degree sweep is still a whole number of  *)
(* ticks; the bearings of an integer-typed field are whole degrees.  A     *)
(* radius in metres is held in units of 10^-5 m, which keeps every         *)
(* conversion factor of parseRadius a whole number.                        *)
(***************************************************************************)
EXTENDS Integers, Sequences, FiniteSets, TLC

\* Largest number of rows in the input table.
MaxRecords == 2

\* Number of records built side by side when builders run concurrently.
NumWorkers == 2

VARIABLES
    desc,           \* arcpy.Describe(inputFC).spatialReference: Name, linearUnitName
    fieldList,      \* the four parameter fields in the table: "ok", "missing", "bad"
    intFields,      \* both bearing fields are integer typed (cursor yields int)
    gotRadius2,     \* the inner-radius field exists in the table, as a text field
    rows,           \* the table: a sequence of [oid, a, b, r1, r2]
    pc,             \* position of the program
    rowNum,         \* processWedges: count, the 1-based number of the row read
    attributesList, \* processWedges: the list handed to createWedges
    idx,            \* createWedges: position of the for loop in attributesList
    count,          \* createWedges: count
    mergeList,      \* createWedges: mergeList
    cw,             \* createWedges: locals of the current iteration
    fn,             \* locals of the running createOneWedge / innerWedgeErase
    inMemory,       \* the in_memory workspace: name -> feature class
    outputFC,       \* the output feature class
    log,            \* every call of createOneWedge / innerWedgeErase / backend tool
    messages,       \* printMessage / AddError output
    faultBudget,    \* backend failures the environment may still inject
    workers         \* the locals of concurrent builders of single records

vars == <<desc, fieldList, intFields, gotRadius2, rows, workers, pc, rowNum,
          attributesList, idx, count, mergeList, cw, fn, inMemory, outputFC, log, messages, faultBudget>>

tableVars == <<desc, fieldList, intFields, gotRadius2, rows>>

-----------------------------------------------------------------------------
(* Arithmetic *)

\* d degrees in ticks.
Deg(d) == 4 * d

\* Python's x % 360 on bearings: the result has the sign of the divisor.
Mod360(x) == x % Deg(360)

\* Half without the division.
HalfWhole(theta) == theta

\* Python 2 theta/2: floor division when both bearings are int, true division
\* otherwise.
Half(theta) == IF intFields THEN Deg((theta \div Deg(1)) \div 2) ELSE theta \div 2

-----------------------------------------------------------------------------
(* Texts and parseRadius *)

\* A text cell: a null, or a sequence of characters.
Txt(s) == [null |-> FALSE, s |-> s]
Null == [null |-> TRUE, s |-> <<>>]

\* Python values None, '' and a float (in 10^-5 m).
None == [t |-> "None", v |-> 0, s |-> <<>>]
Str(s) == [t |-> "str", v |-> 0, s |-> s]
Num(v) == [t |-> "float", v |-> v, s |-> <<>>]

Letters == {"C","D","E","F","H","I","K","L","M","N","O","R","S","T","U","A","Y"}
Lower == [c \in Letters |->
    CASE c = "C" -> "c" [] c = "D" -> "d" [] c = "E" -> "e" [] c = "F" -> "f"
      [] c = "H" -> "h" [] c = "I" -> "i" [] c = "K" -> "k" [] c = "L" -> "l"
      [] c = "M" -> "m" [] c = "N" -> "n" [] c = "O" -> "o" [] c = "R" -> "r"
      [] c = "S" -> "s" [] c = "T" -> "t" [] c = "U" -> "u" [] c = "A" -> "a"
      [] c = "Y" -> "y"]

\* str.upper() on one character.
UpperChar(c) == IF \E u \in Letters : Lower[u] = c
                THEN CHOOSE u \in Letters : Lower[u] = c ELSE c
Upper(w) == [i \in 1..Len(w) |-> UpperChar(w[i])]

Digits == {"0","1","2","3","4","5","6","7","8","9"}
DigitVal(c) == CASE c = "0" -> 0 [] c = "1" -> 1 [] c = "2" -> 2 [] c = "3" -> 3
                 [] c = "4" -> 4 [] c = "5" -> 5 [] c = "6" -> 6 [] c = "7" -> 7
                 [] c = "8" -> 8 [] c = "9" -> 9

\* str.split(): the maximal runs of non-blank characters.
RECURSIVE SplitFrom(_, _, _)
SplitFrom(s, i, cur) ==
    IF i > Len(s) THEN (IF cur = <<>> THEN <<>> ELSE <<cur>>)
    ELSE IF s[i] = " "
         THEN (IF cur = <<>> THEN <<>> ELSE <<cur>>) \o SplitFrom(s, i + 1, <<>>)
         ELSE SplitFrom(s, i + 1, Append(cur, s[i]))
Split(s) == SplitFrom(s, 1, <<>>)

\* The loop of lines 315-325: digits with at most one decimal point.
NumberShapeOK(w) ==
    /\ \A i \in 1..Len(w) : w[i] = "." \/ w[i] \in Digits
    /\ Cardinality({i \in 1..Len(w) : w[i] = "."}) <= 1

UnitNames == { <<"C","E","N","T","I","M","E","T","E","R","S">>,
               <<"D","E","C","I","M","E","T","E","R","S">>,
               <<"F","E","E","T">>,
               <<"I","N","C","H","E","S">>,
               <<"K","I","L","O","M","E","T","E","R","S">>,
               <<"M","E","T","E","R","S">>,
               <<"M","I","L","E","S">>,
               <<"M","I","L","L","I","M","E","T","E","R","S">>,
               <<"N","A","U","T","I","C","A","L","M","I","L","E","S">>,
               <<"Y","A","R","D","S">> }

\* Metres per unit, in 10^-5 m (lines 336-355).
UnitFactor(u) ==
    CASE u = <<"C","E","N","T","I","M","E","T","E","R","S">> -> 1000
      [] u = <<"D","E","C","I","M","E","T","E","R","S">> -> 10000
      [] u = <<"F","E","E","T">> -> 30480
      [] u = <<"I","N","C","H","E","S">> -> 2540
      [] u = <<"K","I","L","O","M","E","T","E","R","S">> -> 100000000
      [] u = <<"M","E","T","E","R","S">> -> 100000
      [] u = <<"M","I","L","E","S">> -> 160934400
      [] u = <<"M","I","L","L","I","M","E","T","E","R","S">> -> 100
      [] u = <<"N","A","U","T","I","C","A","L","M","I","L","E","S">> -> 185200000
      [] u = <<"Y","A","R","D","S">> -> 91440

\* float(w) for a text that passed NumberShapeOK, as numerator and power of ten;
\* float(".") raises ValueError.
RECURSIVE DigitsValue(_)
DigitsValue(w) == IF w = <<>> THEN 0
                  ELSE 10 * DigitsValue(SubSeq(w, 1, Len(w) - 1)) + DigitVal(w[Len(w)])
RECURSIVE Pow10(_)
Pow10(n) == IF n = 0 THEN 1 ELSE 10 * Pow10(n - 1)
FloatRaises(w) == \A i \in 1..Len(w) : w[i] = "."
FloatNum(w) == DigitsValue(SelectSeq(w, LAMBDA c : c # "."))
FloatDen(w) == IF \E i \in 1..Len(w) : w[i] = "."
               THEN Pow10(Len(w) - (CHOOSE i \in 1..Len(w) : w[i] = "."))
               ELSE 1

\* The branch of the if/elif chain of lines 336-357 that runs: one of the ten
\* unit branches, the branch on sInputUnits, or none.
ChainBranch(radiusParts, sInputUnits) ==
    IF Upper(radiusParts[2]) \in UnitNames THEN "unit"
    ELSE IF sInputUnits = "Foot_US" THEN "Foot_US"
    ELSE "none"

\* ConvertChain with the test of sInputUnits ahead of the unit branches.
ConvertChainFootFirst(radiusParts, sInputUnits) ==
    LET radius == (FloatNum(radiusParts[1]) * UnitFactor(Upper(radiusParts[2])))
                      \div FloatDen(radiusParts[1])
    IN IF sInputUnits = "Foot_US" THEN Num((radius \div 10000) * 3048)
       ELSE Num(radius)

\* The if/elif chain of lines 336-357.  The chain is entered only with a unit
\* of UnitNames, so one of its first ten branches assigns radius; in the
\* remaining branches radius is read before it is assigned (UnboundLocalError,
\* the handler returns None).
ConvertChain(radiusParts, sInputUnits) ==
    IF Upper(radiusParts[2]) \in UnitNames
    THEN Num((FloatNum(radiusParts[1]) * UnitFactor(Upper(radiusParts[2])))
                 \div FloatDen(radiusParts[1]))
    ELSE IF sInputUnits = "Foot_US" THEN None
    ELSE None

\* parseRadius(textRadius, sInputUnits): None, or the radius in metres.
ParseRadius(textRadius, sInputUnits) ==
    IF textRadius.null THEN None      \* None.split() raises; the handler returns None
    ELSE LET radiusParts == Split(textRadius.s) IN
         IF Len(radiusParts) # 2 THEN None
         ELSE IF ~NumberShapeOK(radiusParts[1]) THEN None
         ELSE IF Upper(radiusParts[2]) \notin UnitNames THEN None
         ELSE IF FloatRaises(radiusParts[1]) THEN None  \* ValueError; handler returns None
         ELSE ConvertChain(radiusParts, sInputUnits)

-----------------------------------------------------------------------------
(* The geometry backend (arcpy) and the in_memory workspace *)

\* Names of in_memory objects; nextWedge<k> carries its number.
Nm(n) == [n |-> n, k |-> 0]
\* NextWedgeName without the number.
NextWedgeNameFixed(k) == [n |-> "nextWedge", k |-> 0]
\* Line 578: "in_memory\\nextWedge" + str(count).
NextWedgeName(k) == [n |-> "nextWedge", k |-> k]
NoneName == [n |-> "None", k |-> 0]

\* The Id of a feature whose Id field has not been written.
NoId == -1

\* A geometry: the disc of radius r around the centre, cut down to the union of
\* the pieces in cut (the whole disc when cut is empty), minus the disc of
\* radius inner.  A piece is the disc clipped by, or with erased from it, the
\* triangle on the bearings first and second.
Circle(r) == [r |-> r, inner |-> 0, cut |-> <<>>]
Piece(mode, first, second) == [mode |-> mode, first |-> first, second |-> second]

EmptyFC == [feats |-> <<>>, fields |-> {}]

\* Buffer_analysis of the centre point by a positive distance: one disc.  By a
\* distance of 0 there is no disc: the tool writes an empty feature class
\* (EmptyBuffer) or fails.
BufferFC(r) == [feats |-> << [geom |-> Circle(r), Id |-> NoId] >>, fields |-> {"BUFF_DIST"}]
EmptyBuffer == [feats |-> <<>>, fields |-> {"BUFF_DIST"}]

\* Clip_analysis / Erase_analysis of the circle with the triangle.
TriangleFC(fc, mode, first, second) ==
    [fc EXCEPT !.feats = [i \in DOMAIN fc.feats |->
        [fc.feats[i] EXCEPT !.geom.cut = <<Piece(mode, first, second)>>]]]

\* Erase_analysis of a wedge with the inner circle: what lies within the inner
\* radius goes; a feature wholly inside the inner circle leaves nothing.
EraseInnerFC(wedgeFC, circleFC) ==
    IF circleFC.feats = <<>> THEN wedgeFC
    ELSE LET r2 == circleFC.feats[1].geom.r
             kept == SelectSeq(wedgeFC.feats, LAMBDA f : f.geom.r > r2)
         IN [wedgeFC EXCEPT !.feats = [i \in DOMAIN kept |->
                [kept[i] EXCEPT !.geom.inner =
                    IF r2 > kept[i].geom.inner THEN r2 ELSE kept[i].geom.inner]]]

\* Merge_management of two feature classes: the features of both.
MergeFC(fcA, fcB) == [feats |-> fcA.feats \o fcB.feats,
                      fields |-> fcA.fields \cup fcB.fields]

\* Dissolve_management without a dissolve field: one feature, the union.
DissolveFC(fc) ==
    IF fc.feats = <<>> THEN EmptyFC
    ELSE LET RECURSIVE Cuts(_)
             Cuts(i) == IF i > Len(fc.feats) THEN <<>>
                        ELSE fc.feats[i].geom.cut \o Cuts(i + 1)
         IN [feats |-> << [geom |-> [fc.feats[1].geom EXCEPT !.cut = Cuts(1)],
                           Id |-> NoId] >>,
             fields |-> {}]

\* The UpdateCursor loop of lines 567-571: every row's Id becomes wedgeNumber.
TagRows(fc, wedgeNumber) ==
    [fc EXCEPT !.feats = [i \in DOMAIN fc.feats |->
        [fc.feats[i] EXCEPT !.Id = wedgeNumber]]]

\* The workspace with one object written (overwriteOutput is on) or deleted.
Put(ws, name, fc) == [x \in DOMAIN ws \cup {name} |-> IF x = name THEN fc ELSE ws[x]]
Drop(ws, name) == [x \in DOMAIN ws \ {name} |-> ws[x]]

\* math.radians, in microradians per tick (pi / 720 = 0.004363...).
Radians(x) == x * 4363

\* ProjectionTest without the test of the linear unit.
ProjectionTestNoDegree(d) ==
    IF d.name = "Unknown" THEN "no_projection"
    ELSE IF d.name = "GCS_WGS_1984" THEN "wgs84"
    ELSE "ok"

\* Lines 620-631: the spatial references processWedges turns away.
ProjectionTest(d) ==
    IF d.name = "Unknown" THEN "no_projection"
    ELSE IF d.name = "GCS_WGS_1984" THEN "wgs84"
    ELSE IF d.linearUnitName = "Degree" THEN "geographic"
    ELSE "ok"

\* Lines 663-721: a field of the wrong type is reported when the loop meets it,
\* a missing required field after the loop.
FieldsTest(fl) ==
    IF fl.angleA = "bad" \/ fl.angleB = "bad" THEN "not_numeric"
    ELSE IF fl.radius = "bad" \/ fl.radius2 = "bad" THEN "not_text"
    ELSE IF fl.angleA = "missing" THEN "no_angleA"
    ELSE IF fl.angleB = "missing" THEN "no_angleB"
    ELSE IF fl.radius = "missing" THEN "no_radius"
    ELSE "ok"

-----------------------------------------------------------------------------
(* Inputs *)

METERS == <<"M","E","T","E","R","S">>
\* Radius texts: "5 METERS", "9 METERS", "0 METERS", "1.5 feet", "5" (no
\* unit), "", " ", "  ".
Text5M == Txt(<<"5", " ">> \o METERS)
Text9M == Txt(<<"9", " ">> \o METERS)
Text0M == Txt(<<"0", " ">> \o METERS)
TextFeet == Txt(<<"1", ".", "5", " ", "f", "e", "e", "t">>)
TextNoUnit == Txt(<<"5">>)
TextEmpty == Txt(<<>>)
TextSpace == Txt(<<" ">>)
TextSpaces == Txt(<<" ", " ">>)

Row(a, b, r1, r2) == [a |-> a, b |-> b, r1 |-> r1, r2 |-> r2]

\* Bearing pairs in whole degrees: equal bearings, whole turns, the edges 135
\* and 225 of the split range, an odd and a 180-degree sweep inside it, and
\* sweeps that wrap past north.
WholePairs == { <<120, 120>>, <<-30, -30>>, <<120, 480>>, <<-30, 690>>,
                <<0, 90>>, <<0, 135>>, <<0, 225>>, <<10, 161>>,
                <<-90, 90>>, <<350, 80>>, <<90, 0>> }
\* Bearing pairs in half degrees, for real fields.
HalfPairs == { <<1, 1>>, <<1, 721>>, <<0, 271>>, <<20, 322>>, <<601, 60>>, <<0, 451>> }

\* Rows with an outer radius of 5 m and no inner radius.
PlainRows(int) ==
    IF int THEN { Row(Deg(p[1]), Deg(p[2]), Text5M, TextEmpty) : p \in WholePairs }
    ELSE { Row(2 * p[1], 2 * p[2], Text5M, TextEmpty) : p \in HalfPairs }

\* Rows with an inner radius of 1.5 feet: a whole turn, a direct and a split sweep.
ArcbandRows(int) ==
    IF int THEN { Row(Deg(p[1]), Deg(p[2]), Text5M, TextFeet) :
                    p \in { <<120, 480>>, <<0, 90>>, <<10, 161>> } }
    ELSE { Row(0, 2 * 271, Text5M, TextFeet) }

\* Rows whose radius cells are out of the ordinary.
OddOuterRows == { Row(Deg(0), Deg(90), c, TextEmpty) : c \in {Text0M, TextNoUnit} }
OddInnerRows == { Row(Deg(0), Deg(90), Text5M, c) :
                    c \in {TextSpace, TextSpaces, Null, Text9M, Text0M} }

\* The rows a table may hold.  The cells of a real field take the place of
\* those of an integer field, not both; without an inner-radius field the
\* inner cell is not read.
RowValues(int, got2) ==
    CASE int /\ got2 -> { Row(Deg(p[1]), Deg(p[2]), Text5M, TextEmpty) :
                            p \in { <<120, 120>>, <<0, 90>> } }
                          \cup ArcbandRows(int) \cup OddInnerRows
      [] int /\ ~got2 -> PlainRows(int) \cup OddOuterRows
      [] ~int /\ got2 -> PlainRows(int) \cup ArcbandRows(int)
      [] OTHER -> PlainRows(int)

\* Object ids of the rows in cursor order: unique, not contiguous.
OidOf(i) == 4 * i - 1

Tables(int, got2) ==
    UNION { { [i \in 1..n |-> [oid |-> OidOf(i), a |-> t[i].a, b |-> t[i].b,
                               r1 |-> t[i].r1, r2 |-> t[i].r2]] :
                t \in [1..n -> RowValues(int, got2)] } :
            n \in 0..MaxRecords }

\* Spatial references of the input: none, WGS84, another geographic one, and
\* projected ones in metres and in US survey feet.
Descs == { [name |-> "Unknown", linearUnitName |-> ""],
           [name |-> "GCS_WGS_1984", linearUnitName |-> ""],
           [name |-> "GCS_North_American_1983", linearUnitName |-> "Degree"],
           [name |-> "NAD_1983_UTM_Zone_18N", linearUnitName |-> "Meter"],
           [name |-> "NAD_1983_StatePlane_Virginia_North_FIPS_4501_Feet",
            linearUnitName |-> "Foot_US"] }

\* The parameter fields as ListFields shows them: all in order, or one of them
\* missing or of the wrong type.
FieldsOK(got2) == [angleA |-> "ok", angleB |-> "ok", radius |-> "ok",
                   radius2 |-> IF got2 THEN "ok" ELSE "missing"]
FieldLists(got2) ==
    {FieldsOK(got2)}
    \cup { [FieldsOK(got2) EXCEPT ![f] = d] :
               f \in {"angleA", "angleB", "radius"}, d \in {"missing", "bad"} }
    \cup (IF got2 THEN {} ELSE {[FieldsOK(got2) EXCEPT !.radius2 = "bad"]})

-----------------------------------------------------------------------------
(* State after start-up *)

NoLocals == [wedgeNumber |-> 0, angleA |-> 0, angleB |-> 0, theta |-> 0, r1 |-> 0,
             r2 |-> None, booFullCircle |-> FALSE,
             wedge1 |-> NoneName, wedge2 |-> NoneName, oWedge |-> NoneName]
NoCall == [name |-> "", firstAngle |-> 0, secondAngle |-> 0, r |-> 0,
           outWedgeName |-> "", booEraseWedge |-> FALSE, wedge |-> NoneName,
           retTo |-> ""]

\* An input the checks of lines 617-721 turn away is tried with short tables,
\* and so is an input in US survey feet.
InitCommon ==
    /\ intFields \in BOOLEAN
    /\ gotRadius2 \in BOOLEAN
    /\ rows \in Tables(intFields, gotRadius2)
    /\ desc \in Descs
    /\ fieldList \in FieldLists(gotRadius2)
    /\ (ProjectionTest(desc) # "ok" \/ FieldsTest(fieldList) # "ok"
           \/ desc.linearUnitName = "Foot_US") => Len(rows) <= 1
    /\ workers = <<>>
    /\ pc = "pw_describe"
    /\ rowNum = 1
    /\ attributesList = <<>>
    /\ idx = 0
    /\ count = 0
    /\ mergeList = <<>>
    /\ cw = NoLocals
    /\ fn = NoCall
    /\ inMemory = [x \in {} |-> EmptyFC]
    /\ outputFC = [exists |-> FALSE, feats |-> <<>>]
    /\ log = <<>>
    /\ messages = <<>>

Init == InitCommon /\ faultBudget = 0

-----------------------------------------------------------------------------
(* Messages and the call log *)

Msg(sev, kind, n) == [sev |-> sev, kind |-> kind, n |-> n]

\* One entry of the call log: the operation, the record (loop position) it was
\* made for, its two bearings, its radius and the object it writes.
Entry(op, first, second, r, name) ==
    [op |-> op, by |-> fn.name, rec |-> idx, first |-> first, second |-> second,
     r |-> r, name |-> name]

-----------------------------------------------------------------------------
(* Decisions of createWedges and createOneWedge *)

\* FullCircleTest without the comparison of line 492.
FullCircleTestAnyTurn(angleA, angleB) == Mod360(angleB - angleA) = 0

\* Lines 489-493: a whole-turn multiple between bearings that differ.
FullCircleTest(angleA, angleB) == Mod360(angleB - angleA) = 0 /\ angleB # angleA

\* Line 508: nothing to build.
ZeroDegreeTest(theta, booFullCircle) == theta = 0 /\ booFullCircle = FALSE

\* SplitTest with the range ending at the half turn.
SplitTestBelowHalfTurn(theta) == Deg(135) < Mod360(theta) /\ Mod360(theta) < Deg(180)

\* Line 520: 135 < (theta % 360) < 225.
SplitTest(theta) == Deg(135) < Mod360(theta) /\ Mod360(theta) < Deg(225)

\* EraseTest on the raw difference, without % 360.
EraseTestNoMod(firstAngle, secondAngle) == secondAngle - firstAngle > Deg(180)

\* Lines 143-158: theta % 360 > 180, with theta = secondAngle - firstAngle.
EraseTest(firstAngle, secondAngle) == Mod360(secondAngle - firstAngle) > Deg(180)

\* ClipEraseTest without the whole-turn case.
ClipEraseTestNoCopy(firstAngle, secondAngle) == TRUE

\* Line 262, evaluated after lines 163-164 have turned both bearings into
\* radians: (secondAngle - firstAngle) % 360 != 0 chooses Clip / Erase.  360
\* radians are 360 000 000 microradians.
ClipEraseTest(firstAngle, secondAngle) ==
    (Radians(secondAngle) - Radians(firstAngle)) % 360000000 # 0

\* Lines 557-558: the record carries an inner radius.
ArcbandTest(wedge) ==
    wedge.len = 7 /\ wedge.r2 # None /\ wedge.r2 # Str(<<>>) /\ wedge.r2 # Str(<<" ">>)

\* ObjectToDelete naming in_memory\oWedge instead of reading the variable.
ObjectToDeleteLiteral(c) == Nm("oWedge")

\* Line 580: the object Delete_management(oWedge) removes.
ObjectToDelete(c) == c.oWedge

\* IdValue taking the running counter for the record's id.
IdValueCounter(wedgeNumber, cnt) == cnt

\* Line 570: the value written into the Id field.
IdValue(wedgeNumber, cnt) == wedgeNumber

-----------------------------------------------------------------------------
(* Calls, returns and the exception handlers *)

CallOne(firstAngle, secondAngle, r, outWedgeName, retTo) ==
    [name |-> "createOneWedge", firstAngle |-> firstAngle, secondAngle |-> secondAngle,
     r |-> r, outWedgeName |-> outWedgeName,
     booEraseWedge |-> EraseTest(firstAngle, secondAngle),
     wedge |-> NoneName, retTo |-> retTo]

CallInner(r2, wedge) ==
    [name |-> "innerWedgeErase", firstAngle |-> 0, secondAngle |-> 0, r |-> r2,
     outWedgeName |-> "oWedge2", booEraseWedge |-> FALSE, wedge |-> wedge,
     retTo |-> "inner"]

CallEntry(f) ==
    [op |-> f.name, by |-> "createWedges", rec |-> idx, first |-> f.firstAngle,
     second |-> f.secondAngle, r |-> f.r, name |-> f.outWedgeName]

\* Lines 551-560: with the sector in c.oWedge, call innerWedgeErase or go on to
\* the Id field.
InnerStep(c, lg) ==
    IF ArcbandTest(attributesList[idx])
    THEN LET f == CallInner(attributesList[idx].r2.v, c.oWedge)
         IN [pc |-> "iwe_buffer", cw |-> c, fn |-> f, log |-> Append(lg, CallEntry(f))]
    ELSE [pc |-> "cw_addfield", cw |-> c, fn |-> NoCall, log |-> lg]

\* What createWedges does with the value a callee returns, up to its next
\* backend call; lg is the call log at the return.
Ret(site, value, lg) ==
    CASE site = "A" ->
           \* lines 524-531: wedge1 is bound, the second half is set up and built
           LET c == [cw EXCEPT !.wedge1 = value, !.angleA = cw.angleB,
                               !.angleB = Mod360(cw.angleB + Half(cw.theta))]
               f == CallOne(c.angleA, c.angleB, c.r1, "WedgeB", "B")
           IN [pc |-> "cow_buffer", cw |-> c, fn |-> f, log |-> Append(lg, CallEntry(f))]
      [] site = "B" ->
           [pc |-> "cw_mergeAB", cw |-> [cw EXCEPT !.wedge2 = value], fn |-> NoCall,
            log |-> lg]
      [] site = "direct" -> InnerStep([cw EXCEPT !.oWedge = value], lg)
      [] site = "inner" ->
           [pc |-> "cw_addfield", cw |-> [cw EXCEPT !.oWedge = value], fn |-> NoCall,
            log |-> lg]

Return(site, value, lg) ==
    LET R == Ret(site, value, lg)
    IN /\ pc' = R.pc
       /\ cw' = R.cw
       /\ fn' = R.fn
       /\ log' = R.log

InCallee == pc \in {"cow_buffer", "cow_shape", "cow_delfield", "cow_delcircle",
                    "iwe_buffer", "iwe_erase", "iwe_delcircle", "iwe_delwedge"}

\* An exception at the current position: the handler of the running function
\* reports it; createOneWedge and innerWedgeErase then return None (lines
\* 279-283, 414-418), createWedges returns to processWedges (589-593), and
\* processWedges ends (818-822).
UnwindWith(lg) ==
    /\ messages' = Append(messages, Msg(2, "exception", idx))
    /\ IF InCallee THEN Return(fn.retTo, NoneName, lg)
       ELSE /\ pc' = IF pc \in {"pw_describe", "pw_fields", "pw_rows", "pw_join"}
                     THEN "done" ELSE "pw_join"
            /\ log' = lg
            /\ UNCHANGED <<cw, fn>>
    /\ UNCHANGED <<tableVars, workers, rowNum, attributesList, idx, count, mergeList,
                   inMemory, outputFC>>

Unwind == UnwindWith(log)

-----------------------------------------------------------------------------
(* processWedges *)

\* Lines 619-631.
CheckProjection ==
    /\ pc = "pw_describe"
    /\ IF ProjectionTest(desc) # "ok"
       THEN /\ messages' = Append(messages, Msg(2, ProjectionTest(desc), 0))
            /\ pc' = "done"
       ELSE /\ pc' = "pw_fields"
            /\ UNCHANGED messages
    /\ UNCHANGED <<tableVars, workers, rowNum, attributesList, idx, count, mergeList,
                   cw, fn, inMemory, outputFC, log, faultBudget>>

\* Lines 652-721.
CheckFields ==
    /\ pc = "pw_fields"
    /\ IF FieldsTest(fieldList) # "ok"
       THEN /\ messages' = Append(messages, Msg(2, FieldsTest(fieldList), 0))
            /\ pc' = "done"
       ELSE /\ pc' = "pw_rows"
            /\ UNCHANGED messages
    /\ UNCHANGED <<tableVars, workers, rowNum, attributesList, idx, count, mergeList,
                   cw, fn, inMemory, outputFC, log, faultBudget>>

\* InnerFormatError with the inner-radius cell never looked at.
InnerFormatErrorNever(r2) == FALSE

\* Lines 766-772: the inner-radius cell is there and did not parse.
InnerFormatError(r2) == gotRadius2 /\ r2 = None

\* Lines 743-780: oneAttributeSetList of a row whose radii parsed to r1 and r2.
OneAttributeSet(row, r1, r2) ==
    [len |-> IF gotRadius2 THEN 7 ELSE 6, id |-> row.oid, a |-> row.a, b |-> row.b,
     r1 |-> r1.v, r2 |-> IF gotRadius2 THEN r2 ELSE None]

\* The text of the inner-radius cell as lines 767-771 turn it into a value.
InnerValue(cell, sInputUnits) ==
    IF cell \in {Txt(<<>>), Txt(<<" ">>)} THEN Str(<<>>)
    ELSE ParseRadius(cell, sInputUnits)

\* Lines 741-783: one pass of the row loop.
ReadRow ==
    /\ pc = "pw_rows"
    /\ rowNum <= Len(rows)
    /\ LET row == rows[rowNum]
           r1 == ParseRadius(row.r1, desc.linearUnitName)
           r2 == InnerValue(row.r2, desc.linearUnitName)
       IN IF r1 = None
          THEN /\ messages' = Append(messages, Msg(2, "format_r1", rowNum))
               /\ pc' = "done"
               /\ UNCHANGED <<rowNum, attributesList>>
          ELSE IF InnerFormatError(r2)
          THEN /\ messages' = Append(messages, Msg(2, "format_r2", rowNum))
               /\ pc' = "done"
               /\ UNCHANGED <<rowNum, attributesList>>
          ELSE /\ attributesList' = Append(attributesList, OneAttributeSet(row, r1, r2))
               /\ rowNum' = rowNum + 1
               /\ UNCHANGED <<messages, pc>>
    /\ UNCHANGED <<tableVars, workers, idx, count, mergeList, cw, fn, inMemory, outputFC,
                   log, faultBudget>>

\* Lines 785-790 and 463-471: the cursor is released and createWedges starts.
\* "del row" raises when the loop never bound row.
StartCreateWedges ==
    /\ pc = "pw_rows"
    /\ rowNum > Len(rows)
    /\ IF Len(rows) = 0
       THEN Unwind /\ UNCHANGED faultBudget
       ELSE /\ pc' = "cw_for"
            /\ idx' = 1
            /\ count' = 1
            /\ mergeList' = <<>>
            /\ UNCHANGED <<tableVars, workers, rowNum, attributesList, cw, fn, inMemory,
                           outputFC, log, messages, faultBudget>>

\* Lines 792-816: the join, which needs the output feature class.
JoinTable ==
    /\ pc = "pw_join"
    /\ IF ~outputFC.exists
       THEN Unwind /\ UNCHANGED faultBudget
       ELSE /\ pc' = "done"
            /\ messages' = Append(messages, Msg(0, "joined", 0))
            /\ UNCHANGED <<tableVars, workers, rowNum, attributesList, idx, count, mergeList,
                           cw, fn, inMemory, outputFC, log, faultBudget>>

-----------------------------------------------------------------------------
(* createWedges: the loop head *)

\* Lines 474-531 / 546-549: the record is classified; it is skipped, or its
\* first createOneWedge call is made.
NextWedge ==
    /\ pc = "cw_for"
    /\ idx <= Len(attributesList)
    /\ LET wedge == attributesList[idx]
           booFullCircle == FullCircleTest(wedge.a, wedge.b)
           angleA == Mod360(wedge.a)
           angleB == Mod360(wedge.b)
           theta == Mod360(angleB - angleA)
           c == [NoLocals EXCEPT !.wedgeNumber = wedge.id, !.angleA = angleA,
                                 !.angleB = angleB, !.theta = theta, !.r1 = wedge.r1,
                                 !.r2 = wedge.r2, !.booFullCircle = booFullCircle]
       IN IF ZeroDegreeTest(theta, booFullCircle)
          THEN /\ messages' = Append(messages, Msg(0, "skipping", count))
               /\ count' = count + 1
               /\ idx' = idx + 1
               /\ cw' = c
               /\ UNCHANGED <<pc, fn, log>>
          ELSE /\ messages' = Append(messages, Msg(0, "creating", count))
               /\ pc' = "cow_buffer"
               /\ UNCHANGED <<count, idx>>
               /\ IF SplitTest(theta)
                  THEN LET c1 == [c EXCEPT !.angleB = Mod360(angleA + Half(theta))]
                           f == CallOne(c1.angleA, c1.angleB, c1.r1, "WedgeA", "A")
                       IN /\ cw' = c1
                          /\ fn' = f
                          /\ log' = Append(log, CallEntry(f))
                  ELSE LET f == CallOne(angleA, angleB, wedge.r1, "oWedge", "direct")
                       IN /\ cw' = c
                          /\ fn' = f
                          /\ log' = Append(log, CallEntry(f))
    /\ UNCHANGED <<tableVars, workers, rowNum, attributesList, mergeList, inMemory, outputFC,
                   faultBudget>>

\* Lines 585-587: the per-record results are merged into the output.
RECURSIVE FeatsOf(_, _)
FeatsOf(ws, names) ==
    IF names = <<>> THEN <<>> ELSE ws[Head(names)].feats \o FeatsOf(ws, Tail(names))

MergeAll ==
    /\ pc = "cw_for"
    /\ idx > Len(attributesList)
    /\ IF mergeList = <<>>
       THEN /\ messages' = Append(Append(messages, Msg(0, "merging", 0)),
                                  Msg(2, "exception", idx))
            /\ pc' = "pw_join"
            /\ UNCHANGED outputFC
       ELSE /\ messages' = Append(messages, Msg(0, "merging", 0))
            /\ outputFC' = [exists |-> TRUE, feats |-> FeatsOf(inMemory, mergeList)]
            /\ pc' = "pw_join"
    /\ UNCHANGED <<tableVars, workers, rowNum, attributesList, idx, count, mergeList, cw, fn,
                   inMemory, log, faultBudget>>

-----------------------------------------------------------------------------
(* createOneWedge *)

\* Lines 249-250.
OneWedgeBuffer ==
    /\ pc = "cow_buffer"
    /\ LET lg == Append(log, Entry("Buffer", fn.firstAngle, fn.secondAngle, fn.r,
                                   "circle"))
       IN \/ /\ fn.r > 0
             /\ inMemory' = Put(inMemory, Nm("circle"), BufferFC(fn.r))
             /\ log' = lg
             /\ pc' = "cow_shape"
             /\ UNCHANGED <<tableVars, workers, rowNum, attributesList, idx, count, mergeList,
                            cw, fn, outputFC, messages, faultBudget>>
          \/ /\ fn.r = 0
             /\ inMemory' = Put(inMemory, Nm("circle"), EmptyBuffer)
             /\ log' = lg
             /\ pc' = "cow_shape"
             /\ UNCHANGED <<tableVars, workers, rowNum, attributesList, idx, count, mergeList,
                            cw, fn, outputFC, messages, faultBudget>>
          \/ /\ fn.r = 0
             /\ UnwindWith(lg)
             /\ UNCHANGED faultBudget

\* Lines 260-268.
OneWedgeShape ==
    /\ pc = "cow_shape"
    /\ LET op == IF ClipEraseTest(fn.firstAngle, fn.secondAngle)
                 THEN (IF fn.booEraseWedge = TRUE THEN "Erase" ELSE "Clip")
                 ELSE "Copy"
           circle == inMemory[Nm("circle")]
       IN /\ inMemory' = Put(inMemory, Nm(fn.outWedgeName),
                 IF op = "Copy" THEN circle
                 ELSE TriangleFC(circle, op, fn.firstAngle, fn.secondAngle))
          /\ log' = Append(log, Entry(op, fn.firstAngle, fn.secondAngle, fn.r,
                                      fn.outWedgeName))
    /\ pc' = "cow_delfield"
    /\ UNCHANGED <<tableVars, workers, rowNum, attributesList, idx, count, mergeList, cw, fn,
                   outputFC, messages, faultBudget>>

\* Line 271.
OneWedgeDeleteField ==
    /\ pc = "cow_delfield"
    /\ inMemory' = [inMemory EXCEPT ![Nm(fn.outWedgeName)].fields = @ \ {"BUFF_DIST"}]
    /\ pc' = "cow_delcircle"
    /\ UNCHANGED <<tableVars, workers, rowNum, attributesList, idx, count, mergeList, cw, fn,
                   outputFC, log, messages, faultBudget>>

\* Lines 273-277.
OneWedgeDeleteCircle ==
    /\ pc = "cow_delcircle"
    /\ inMemory' = Drop(inMemory, Nm("circle"))
    /\ Return(fn.retTo, Nm(fn.outWedgeName), log)
    /\ UNCHANGED <<tableVars, workers, rowNum, attributesList, idx, count, mergeList,
                   outputFC, messages, faultBudget>>

-----------------------------------------------------------------------------
(* innerWedgeErase *)

\* Lines 405-406.
InnerBuffer ==
    /\ pc = "iwe_buffer"
    /\ LET lg == Append(log, Entry("Buffer", 0, 0, fn.r, "circle"))
       IN \/ /\ fn.r > 0
             /\ inMemory' = Put(inMemory, Nm("circle"), BufferFC(fn.r))
             /\ log' = lg
             /\ pc' = "iwe_erase"
             /\ UNCHANGED <<tableVars, workers, rowNum, attributesList, idx, count, mergeList,
                            cw, fn, outputFC, messages, faultBudget>>
          \/ /\ fn.r = 0
             /\ inMemory' = Put(inMemory, Nm("circle"), EmptyBuffer)
             /\ log' = lg
             /\ pc' = "iwe_erase"
             /\ UNCHANGED <<tableVars, workers, rowNum, attributesList, idx, count, mergeList,
                            cw, fn, outputFC, messages, faultBudget>>
          \/ /\ fn.r = 0
             /\ UnwindWith(lg)
             /\ UNCHANGED faultBudget

\* Lines 407-408; Erase_analysis raises when there is no wedge to erase from.
InnerErase ==
    /\ pc = "iwe_erase"
    /\ IF fn.wedge \notin DOMAIN inMemory
       THEN /\ Unwind
            /\ UNCHANGED faultBudget
       ELSE /\ inMemory' = Put(inMemory, Nm("oWedge2"),
                               EraseInnerFC(inMemory[fn.wedge], inMemory[Nm("circle")]))
            /\ log' = Append(log, Entry("Erase", 0, 0, fn.r, "oWedge2"))
            /\ pc' = "iwe_delcircle"
            /\ UNCHANGED <<tableVars, workers, rowNum, attributesList, idx, count, mergeList,
                           cw, fn, outputFC, messages, faultBudget>>

\* Line 409.
InnerDeleteCircle ==
    /\ pc = "iwe_delcircle"
    /\ inMemory' = Drop(inMemory, Nm("circle"))
    /\ pc' = "iwe_delwedge"
    /\ UNCHANGED <<tableVars, workers, rowNum, attributesList, idx, count, mergeList, cw, fn,
                   outputFC, log, messages, faultBudget>>

\* Lines 411-412.
InnerDeleteWedge ==
    /\ pc = "iwe_delwedge"
    /\ inMemory' = Drop(inMemory, fn.wedge)
    /\ Return(fn.retTo, Nm("oWedge2"), log)
    /\ UNCHANGED <<tableVars, workers, rowNum, attributesList, idx, count, mergeList,
                   outputFC, messages, faultBudget>>

-----------------------------------------------------------------------------
(* createWedges: the two halves of a split record *)

\* Lines 534-535; Merge_management raises when a half is None.
MergeHalves ==
    /\ pc = "cw_mergeAB"
    /\ IF cw.wedge1 \notin DOMAIN inMemory \/ cw.wedge2 \notin DOMAIN inMemory
       THEN /\ Unwind
            /\ UNCHANGED faultBudget
       ELSE /\ inMemory' = Put(inMemory, Nm("WedgeC"),
                               MergeFC(inMemory[cw.wedge1], inMemory[cw.wedge2]))
            /\ pc' = "cw_delA"
            /\ UNCHANGED <<tableVars, workers, rowNum, attributesList, idx, count, mergeList,
                           cw, fn, outputFC, log, messages, faultBudget>>

\* Line 536.
DeleteWedgeA ==
    /\ pc = "cw_delA"
    /\ inMemory' = Drop(inMemory, Nm("WedgeA"))
    /\ pc' = "cw_delB"
    /\ UNCHANGED <<tableVars, workers, rowNum, attributesList, idx, count, mergeList, cw, fn,
                   outputFC, log, messages, faultBudget>>

\* Line 537.
DeleteWedgeB ==
    /\ pc = "cw_delB"
    /\ inMemory' = Drop(inMemory, Nm("WedgeB"))
    /\ pc' = "cw_dissolve"
    /\ UNCHANGED <<tableVars, workers, rowNum, attributesList, idx, count, mergeList, cw, fn,
                   outputFC, log, messages, faultBudget>>

\* Lines 539-540.
DissolveHalves ==
    /\ pc = "cw_dissolve"
    /\ inMemory' = Put(inMemory, Nm("oWedge"), DissolveFC(inMemory[Nm("WedgeC")]))
    /\ cw' = [cw EXCEPT !.oWedge = Nm("oWedge")]
    /\ pc' = "cw_delC"
    /\ UNCHANGED <<tableVars, workers, rowNum, attributesList, idx, count, mergeList, fn,
                   outputFC, log, messages, faultBudget>>

\* Lines 541-560: WedgeC goes, and the inner radius is looked at.
DeleteWedgeC ==
    /\ pc = "cw_delC"
    /\ inMemory' = Drop(inMemory, Nm("WedgeC"))
    /\ LET R == InnerStep([cw EXCEPT !.wedge1 = NoneName, !.wedge2 = NoneName], log)
       IN /\ pc' = R.pc
          /\ cw' = R.cw
          /\ fn' = R.fn
          /\ log' = R.log
    /\ UNCHANGED <<tableVars, workers, rowNum, attributesList, idx, count, mergeList,
                   outputFC, messages, faultBudget>>

-----------------------------------------------------------------------------
(* createWedges: the Id field and the per-record result *)

\* Line 565; AddField_management raises when oWedge is None.
AddIdField ==
    /\ pc = "cw_addfield"
    /\ IF cw.oWedge \notin DOMAIN inMemory
       THEN /\ Unwind
            /\ UNCHANGED faultBudget
       ELSE /\ inMemory' = [inMemory EXCEPT ![cw.oWedge].fields = @ \cup {"Id"}]
            /\ pc' = "cw_cursor"
            /\ UNCHANGED <<tableVars, workers, rowNum, attributesList, idx, count, mergeList,
                           cw, fn, outputFC, log, messages, faultBudget>>

\* Lines 567-573.
TagWedge ==
    /\ pc = "cw_cursor"
    /\ inMemory' = [inMemory EXCEPT ![cw.oWedge] =
                        TagRows(@, IdValue(cw.wedgeNumber, count))]
    /\ count' = count + 1
    /\ pc' = "cw_copy"
    /\ UNCHANGED <<tableVars, workers, rowNum, attributesList, idx, mergeList, cw, fn,
                   outputFC, log, messages, faultBudget>>

\* Lines 578-579.
CopyWedge ==
    /\ pc = "cw_copy"
    /\ inMemory' = Put(inMemory, NextWedgeName(count), inMemory[cw.oWedge])
    /\ pc' = "cw_delo"
    /\ UNCHANGED <<tableVars, workers, rowNum, attributesList, idx, count, mergeList, cw, fn,
                   outputFC, log, messages, faultBudget>>

\* Lines 580-583, and the step of the for loop.
DeleteOWedge ==
    /\ pc = "cw_delo"
    /\ inMemory' = Drop(inMemory, ObjectToDelete(cw))
    /\ mergeList' = Append(mergeList, NextWedgeName(count))
    /\ cw' = [cw EXCEPT !.oWedge = NoneName]
    /\ idx' = idx + 1
    /\ pc' = "cw_for"
    /\ UNCHANGED <<tableVars, workers, rowNum, attributesList, count, fn, outputFC, log,
                   messages, faultBudget>>

-----------------------------------------------------------------------------
(* Backend failure *)

\* The positions at which a geoprocessing tool is about to run.
ToolPositions == {"cow_buffer", "cow_shape", "cow_delfield", "cow_delcircle",
                  "iwe_buffer", "iwe_erase", "iwe_delcircle", "iwe_delwedge",
                  "cw_mergeAB", "cw_delA", "cw_delB", "cw_dissolve", "cw_delC",
                  "cw_addfield", "cw_cursor", "cw_copy", "cw_delo"}

\* The tool at the current position raises instead of running.
ToolRaises ==
    /\ faultBudget > 0
    /\ pc \in ToolPositions
    /\ faultBudget' = faultBudget - 1
    /\ Unwind

-----------------------------------------------------------------------------
(* Concurrent builders: the steps of createOneWedge and innerWedgeErase for   *)
(* several records, interleaved over the one in_memory workspace.  Builder w  *)
(* builds record w; a tool that does not find its input raises, and the       *)
(* handler of the function returns None.                                      *)

WorkerIds == 1..NumWorkers

NoResult == [found |-> FALSE, fc |-> EmptyFC]

\* Lines 548-549: the direct call of createOneWedge for a record.
WorkerStart(i) ==
    [rec |-> i, pc |-> "cow_buffer",
     fn |-> CallOne(Mod360(attributesList[i].a), Mod360(attributesList[i].b),
                    attributesList[i].r1, "oWedge", "direct"),
     result |-> NoResult]

\* Lines 548-560: builder w gets value back from its callee with the workspace
\* being ws: innerWedgeErase is called, or the object the value names is the
\* record's shape.
WorkerRet(w, value, ws) ==
    LET me == workers[w]
        wedge == attributesList[me.rec]
    IN IF me.fn.retTo = "direct" /\ ArcbandTest(wedge)
       THEN [me EXCEPT !.pc = "iwe_buffer", !.fn = CallInner(wedge.r2.v, value)]
       ELSE [me EXCEPT !.pc = "done", !.fn = NoCall,
                       !.result = IF value \in DOMAIN ws
                                  THEN [found |-> TRUE, fc |-> ws[value]]
                                  ELSE NoResult]

workerFrame == <<tableVars, pc, rowNum, attributesList, idx, count, mergeList, cw,
                 fn, outputFC, log, messages, faultBudget>>

\* Lines 249-250.
WorkerOneWedgeBuffer(w) ==
    /\ workers[w].pc = "cow_buffer"
    /\ inMemory' = Put(inMemory, Nm("circle"), BufferFC(workers[w].fn.r))
    /\ workers' = [workers EXCEPT ![w].pc = "cow_shape"]
    /\ UNCHANGED workerFrame

\* Lines 260-268.
WorkerOneWedgeShape(w) ==
    /\ workers[w].pc = "cow_shape"
    /\ LET f == workers[w].fn
           op == IF ClipEraseTest(f.firstAngle, f.secondAngle)
                 THEN (IF f.booEraseWedge = TRUE THEN "Erase" ELSE "Clip")
                 ELSE "Copy"
       IN IF Nm("circle") \notin DOMAIN inMemory
          THEN /\ workers' = [workers EXCEPT ![w] = WorkerRet(w, NoneName, inMemory)]
               /\ UNCHANGED inMemory
          ELSE /\ inMemory' = Put(inMemory, Nm(f.outWedgeName),
                      IF op = "Copy" THEN inMemory[Nm("circle")]
                      ELSE TriangleFC(inMemory[Nm("circle")], op, f.firstAngle,
                                      f.secondAngle))
               /\ workers' = [workers EXCEPT ![w].pc = "cow_delfield"]
    /\ UNCHANGED workerFrame

\* Line 271.
WorkerOneWedgeDeleteField(w) ==
    /\ workers[w].pc = "cow_delfield"
    /\ LET name == Nm(workers[w].fn.outWedgeName)
       IN IF name \notin DOMAIN inMemory
          THEN /\ workers' = [workers EXCEPT ![w] = WorkerRet(w, NoneName, inMemory)]
               /\ UNCHANGED inMemory
          ELSE /\ inMemory' = [inMemory EXCEPT ![name].fields = @ \ {"BUFF_DIST"}]
               /\ workers' = [workers EXCEPT ![w].pc = "cow_delcircle"]
    /\ UNCHANGED workerFrame

\* Lines 273-277.
WorkerOneWedgeDeleteCircle(w) ==
    /\ workers[w].pc = "cow_delcircle"
    /\ IF Nm("circle") \notin DOMAIN inMemory
       THEN /\ workers' = [workers EXCEPT ![w] = WorkerRet(w, NoneName, inMemory)]
            /\ UNCHANGED inMemory
       ELSE LET ws == Drop(inMemory, Nm("circle"))
            IN /\ inMemory' = ws
               /\ workers' = [workers EXCEPT ![w] =
                                  WorkerRet(w, Nm(workers[w].fn.outWedgeName), ws)]
    /\ UNCHANGED workerFrame

\* Lines 405-406.
WorkerInnerBuffer(w) ==
    /\ workers[w].pc = "iwe_buffer"
    /\ inMemory' = Put(inMemory, Nm("circle"), BufferFC(workers[w].fn.r))
    /\ workers' = [workers EXCEPT ![w].pc = "iwe_erase"]
    /\ UNCHANGED workerFrame

\* Lines 407-408.
WorkerInnerErase(w) ==
    /\ workers[w].pc = "iwe_erase"
    /\ IF workers[w].fn.wedge \notin DOMAIN inMemory
          \/ Nm("circle") \notin DOMAIN inMemory
       THEN /\ workers' = [workers EXCEPT ![w] = WorkerRet(w, NoneName, inMemory)]
            /\ UNCHANGED inMemory
       ELSE /\ inMemory' = Put(inMemory, Nm("oWedge2"),
                               EraseInnerFC(inMemory[workers[w].fn.wedge],
                                            inMemory[Nm("circle")]))
            /\ workers' = [workers EXCEPT ![w].pc = "iwe_delcircle"]
    /\ UNCHANGED workerFrame

\* Line 409.
WorkerInnerDeleteCircle(w) ==
    /\ workers[w].pc = "iwe_delcircle"
    /\ IF Nm("circle") \notin DOMAIN inMemory
       THEN /\ workers' = [workers EXCEPT ![w] = WorkerRet(w, NoneName, inMemory)]
            /\ UNCHANGED inMemory
       ELSE /\ inMemory' = Drop(inMemory, Nm("circle"))
            /\ workers' = [workers EXCEPT ![w].pc = "iwe_delwedge"]
    /\ UNCHANGED workerFrame

\* Lines 411-412.
WorkerInnerDeleteWedge(w) ==
    /\ workers[w].pc = "iwe_delwedge"
    /\ IF workers[w].fn.wedge \notin DOMAIN inMemory
       THEN /\ workers' = [workers EXCEPT ![w] = WorkerRet(w, NoneName, inMemory)]
            /\ UNCHANGED inMemory
       ELSE LET ws == Drop(inMemory, workers[w].fn.wedge)
            IN /\ inMemory' = ws
               /\ workers' = [workers EXCEPT ![w] = WorkerRet(w, Nm("oWedge2"), ws)]
    /\ UNCHANGED workerFrame

-----------------------------------------------------------------------------
(* Specifications *)

Next ==
    \/ CheckProjection
    \/ CheckFields
    \/ ReadRow
    \/ StartCreateWedges
    \/ JoinTable
    \/ NextWedge
    \/ MergeAll
    \/ OneWedgeBuffer
    \/ OneWedgeShape
    \/ OneWedgeDeleteField
    \/ OneWedgeDeleteCircle
    \/ InnerBuffer
    \/ InnerErase
    \/ InnerDeleteCircle
    \/ InnerDeleteWedge
    \/ MergeHalves
    \/ DeleteWedgeA
    \/ DeleteWedgeB
    \/ DissolveHalves
    \/ DeleteWedgeC
    \/ AddIdField
    \/ TagWedge
    \/ CopyWedge
    \/ DeleteOWedge

\* Runs in which no geoprocessing tool fails.
Spec == Init /\ [][Next]_vars

\* Runs in which one geoprocessing tool may fail.
InitFault == InitCommon /\ faultBudget = 1
NextFault == Next \/ ToolRaises
SpecFault == InitFault /\ [][NextFault]_vars

\* Rows for concurrent builders: sweeps built by one createOneWedge call, with
\* outer radii of 5 m and 9 m, with and without an inner radius.
WorkerRows == { Row(Deg(0), Deg(90), Text5M, TextEmpty),
                Row(Deg(350), Deg(80), Text9M, TextEmpty),
                Row(Deg(0), Deg(270), Text9M, TextFeet),
                Row(Deg(120), Deg(480), Text5M, TextFeet) }

\* Runs in which one builder per record works on a table that processWedges
\* has read without complaint.
InitWorkers ==
    /\ intFields = TRUE
    /\ gotRadius2 = TRUE
    /\ desc = [name |-> "NAD_1983_UTM_Zone_18N", linearUnitName |-> "Meter"]
    /\ fieldList = FieldsOK(TRUE)
    /\ \E t \in [WorkerIds -> WorkerRows] :
          rows = [i \in WorkerIds |-> [oid |-> OidOf(i), a |-> t[i].a, b |-> t[i].b,
                                       r1 |-> t[i].r1, r2 |-> t[i].r2]]
    /\ attributesList = [i \in WorkerIds |->
          OneAttributeSet(rows[i], ParseRadius(rows[i].r1, desc.linearUnitName),
                          InnerValue(rows[i].r2, desc.linearUnitName))]
    /\ workers = [i \in WorkerIds |-> WorkerStart(i)]
    /\ pc = "workers"
    /\ rowNum = NumWorkers + 1
    /\ idx = 0
    /\ count = 0
    /\ mergeList = <<>>
    /\ cw = NoLocals
    /\ fn = NoCall
    /\ inMemory = [x \in {} |-> EmptyFC]
    /\ outputFC = [exists |-> FALSE, feats |-> <<>>]
    /\ log = <<>>
    /\ messages = <<>>
    /\ faultBudget = 0

NextWorkers ==
    \E w \in WorkerIds :
        \/ WorkerOneWedgeBuffer(w)
        \/ WorkerOneWedgeShape(w)
        \/ WorkerOneWedgeDeleteField(w)
        \/ WorkerOneWedgeDeleteCircle(w)
        \/ WorkerInnerBuffer(w)
        \/ WorkerInnerErase(w)
        \/ WorkerInnerDeleteCircle(w)
        \/ WorkerInnerDeleteWedge(w)

SpecWorkers == InitWorkers /\ [][NextWorkers]_vars

\* Radius texts for parseRadius: number parts "5", "0.5", "0", "." and "1.2.3"
\* with each of the ten unit names, with "feet", "Foot_US", "FOOT_US" and
\* "PARSECS", and texts of one and of three parts.
ParseNumbers == { <<"5">>, <<"0", ".", "5">>, <<"0">>, <<".">>,
                  <<"1", ".", "2", ".", "3">> }
ParseUnitWords == UnitNames \cup { <<"f", "e", "e", "t">>,
                                   <<"F", "o", "o", "t", "_", "U", "S">>,
                                   <<"F", "O", "O", "T", "_", "U", "S">>,
                                   <<"P", "A", "R", "S", "E", "C", "S">> }
ParseTexts == { Txt(n \o <<" ">> \o u) : n \in ParseNumbers, u \in ParseUnitWords }
                 \cup { Txt(<<"5">>), Txt(<<"5", " ", "U", "S", " ">> \o METERS), Null }
ParseUnits == { d.linearUnitName : d \in Descs }

\* Runs of the row loop of processWedges over one-row tables that carry the
\* radius texts, in the outer-radius cell or in the inner-radius cell, for
\* projected inputs in metres and in US survey feet.
InitParse ==
    /\ intFields = TRUE
    /\ gotRadius2 \in BOOLEAN
    /\ desc \in { d \in Descs : ProjectionTest(d) = "ok" }
    /\ fieldList = FieldsOK(gotRadius2)
    /\ \E t \in ParseTexts :
          rows = << [oid |-> OidOf(1), a |-> Deg(0), b |-> Deg(90),
                     r1 |-> IF gotRadius2 THEN Text5M ELSE t,
                     r2 |-> IF gotRadius2 THEN t ELSE TextEmpty] >>
    /\ workers = <<>>
    /\ pc = "pw_describe"
    /\ rowNum = 1
    /\ attributesList = <<>>
    /\ idx = 0
    /\ count = 0
    /\ mergeList = <<>>
    /\ cw = NoLocals
    /\ fn = NoCall
    /\ inMemory = [x \in {} |-> EmptyFC]
    /\ outputFC = [exists |-> FALSE, feats |-> <<>>]
    /\ log = <<>>
    /\ messages = <<>>
    /\ faultBudget = 0

NextParse ==
    \/ CheckProjection
    \/ CheckFields
    \/ ReadRow

SpecParse == InitParse /\ [][NextParse]_vars

-----------------------------------------------------------------------------
(* Vocabulary of the properties *)

Records == DOMAIN attributesList

\* The record's reduced sweep, as the specification defines theta.
SweepOf(i) == Mod360(Mod360(attributesList[i].b) - Mod360(attributesList[i].a))

SameBearings(i) == attributesList[i].a = attributesList[i].b
WholeTurn(i) == /\ Mod360(attributesList[i].b - attributesList[i].a) = 0
                /\ attributesList[i].a # attributesList[i].b
InSplitRange(i) == Deg(135) < SweepOf(i) /\ SweepOf(i) < Deg(225)

\* The iteration of createWedges for record i has run to its end.
Processed(i) == i \in Records /\ idx > i

\* The calls of createOneWedge made for record i, in order.
CallsOf(i) == SelectSeq(log, LAMBDA e : e.rec = i /\ e.op = "createOneWedge")
\* The Clip / Erase / Copy steps createOneWedge made for record i, in order.
ShapingsOf(i) == SelectSeq(log, LAMBDA e : e.rec = i /\ e.by = "createOneWedge"
                                            /\ e.op \in {"Clip", "Erase", "Copy"})
\* The calls of innerWedgeErase made for record i.
InnerCallsOf(i) == SelectSeq(log, LAMBDA e : e.rec = i /\ e.op = "innerWedgeErase")

SweepOfCall(e) == Mod360(e.second - e.first)

\* The shapes of a feature class that carry the given Id.
ShapesWithId(feats, id) == SelectSeq(feats, LAMBDA f : f.Id = id)

\* Every feature held anywhere in the in_memory workspace.
HeldIds == UNION { {inMemory[n].feats[k].Id : k \in DOMAIN inMemory[n].feats} :
                   n \in DOMAIN inMemory }

-----------------------------------------------------------------------------
(* Properties *)

\* C1: a record whose two bearings are the same value is a zero-degree wedge:
\* while the loop is at that record it never leaves the loop head, so no call of
\* createOneWedge or innerWedgeErase and no backend tool is logged for it,
\* mergeList holds exactly one entry per earlier record with differing
\* bearings, and no shape anywhere, the final output included, carries its id.
C1_ZeroDegreeSkipped ==
    /\ \A i \in Records : SameBearings(i) =>
          /\ (idx = i => pc = "cw_for")
          /\ \A k \in DOMAIN log : log[k].rec # i
          /\ attributesList[i].id \notin HeldIds
          /\ ShapesWithId(outputFC.feats, attributesList[i].id) = <<>>
    /\ pc = "cw_for" =>
          Len(mergeList) = Cardinality({j \in Records : j < idx /\ ~SameBearings(j)})

\* C1 witness: a run has ended with an output although the table's first
\* record had equal bearings.
C1_Witness ==
    /\ pc = "done"
    /\ outputFC.exists
    /\ Len(attributesList) = 2
    /\ SameBearings(1)
    /\ attributesList[1].a < 0

C3_NoNearHalfTurnCall ==
    /\ \A k \in DOMAIN log : log[k].op = "createOneWedge" =>
          ~(Deg(135) < SweepOfCall(log[k]) /\ SweepOfCall(log[k]) < Deg(225))
    /\ \A i \in Records :
          /\ InSplitRange(i) =>
                /\ \A k \in DOMAIN CallsOf(i) :
                      /\ 2 * SweepOfCall(CallsOf(i)[k]) <= SweepOf(i)
                      /\ 2 * SweepOfCall(CallsOf(i)[k]) >= SweepOf(i) - Deg(1)
                /\ Processed(i) => Len(CallsOf(i)) = 2
          /\ (SweepOf(i) \in {Deg(135), Deg(225)} /\ Processed(i)) =>
                /\ Len(CallsOf(i)) = 1
                /\ SweepOfCall(CallsOf(i)[1]) = SweepOf(i)

\* C3 witness: a record with a sweep of exactly 180 degrees has been built from
\* two calls, and a record with sweep 135 directly.
C3_Witness ==
    \E i, j \in Records :
        /\ Processed(i) /\ Processed(j)
        /\ SweepOf(i) = Deg(180)
        /\ Len(CallsOf(i)) = 2
        /\ SweepOf(j) = Deg(135)
        /\ Len(CallsOf(j)) = 1

\* C4: for a record with sweep in (135, 225) the first sub-wedge starts at the
\* reduced start bearing, the second starts where the first ends, at
\* (start + theta/2) mod 360, the second ends at the reduced end bearing, and
\* the two sub-sweeps sum to theta.
C4_HalvesCoverSweep ==
    \A i \in Records : (InSplitRange(i) /\ Processed(i)) =>
        LET c == CallsOf(i) IN
        /\ Len(c) = 2
        /\ c[1].first = Mod360(attributesList[i].a)
        /\ 2 * c[1].second = 2 * Mod360(attributesList[i].a) + SweepOf(i)
              \/ 2 * c[1].second = 2 * Mod360(attributesList[i].a) + SweepOf(i) - Deg(720)
        /\ c[2].first = c[1].second
        /\ c[2].second = Mod360(attributesList[i].b)
        /\ SweepOfCall(c[1]) + SweepOfCall(c[2]) = SweepOf(i)

\* C5: createOneWedge erases exactly when (secondAngle - firstAngle) mod 360
\* exceeds 180 and clips otherwise, also when secondAngle < firstAngle; so a
\* record built directly is erased for a sweep in [225, 360) and clipped for a
\* sweep in (0, 135], and both halves of a split record are clipped.
C5_ClipOrErase ==
    /\ \A k \in DOMAIN log :
          (log[k].by = "createOneWedge" /\ log[k].op \in {"Clip", "Erase"}) =>
             (log[k].op = "Erase" <=> SweepOfCall(log[k]) > Deg(180))
    /\ \A i \in Records : \A k \in DOMAIN ShapingsOf(i) :
          LET op == ShapingsOf(i)[k].op IN
          /\ InSplitRange(i) => op = "Clip"
          /\ SweepOf(i) >= Deg(225) => op = "Erase"
          /\ (0 < SweepOf(i) /\ SweepOf(i) <= Deg(135)) => op = "Clip"

\* C5 witness: an erase and a clip have both been made for bearings that wrap
\* past north (secondAngle < firstAngle).
C5_Witness ==
    \E k, m \in DOMAIN log :
        /\ log[k].by = "createOneWedge" /\ log[k].op = "Erase"
        /\ log[k].second < log[k].first
        /\ log[m].by = "createOneWedge" /\ log[m].op = "Clip"
        /\ log[m].second < log[m].first

\* The radii of record i are those the wedge specification admits.
ValidRadii(i) ==
    /\ attributesList[i].r1 > 0
    /\ ArcbandTest(attributesList[i]) =>
          (0 < attributesList[i].r2.v /\ attributesList[i].r2.v < attributesList[i].r1)

\* createWedges has gone through the whole batch.
BatchDone == pc \in {"pw_join", "done"} /\ idx >= 1 /\ idx > Len(attributesList)

\* C6: after createWedges has gone through a batch, the output holds exactly
\* one shape for every record whose bearings differ, tagged with the record's
\* own id, none for a record with equal bearings, and no shape with any other
\* id.
C6_OneShapePerRecord ==
    BatchDone =>
        /\ \A i \in Records :
              Len(ShapesWithId(outputFC.feats, attributesList[i].id))
                 = IF SameBearings(i) THEN 0 ELSE 1
        /\ \A k \in DOMAIN outputFC.feats :
              \E i \in Records : outputFC.feats[k].Id = attributesList[i].id

\* The inner-radius cell of a row is null, empty or blanks only.
BlankInner(row) == row.r2.null \/ \A k \in DOMAIN row.r2.s : row.r2.s[k] = " "

\* C7: with the inner-radius field present, a row whose inner-radius cell is
\* null, empty or blank raises no formatting error, gets no innerWedgeErase
\* call and keeps its wedge uncut; innerWedgeErase is called exactly for the
\* records with a numeric inner radius.
C7_BlankInnerIgnored ==
    gotRadius2 =>
        /\ \A n \in DOMAIN rows : BlankInner(rows[n]) =>
              \A k \in DOMAIN messages : messages[k] # Msg(2, "format_r2", n)
        /\ \A i \in Records :
              /\ BlankInner(rows[i]) =>
                    /\ InnerCallsOf(i) = <<>>
                    /\ \A k \in DOMAIN outputFC.feats :
                          outputFC.feats[k].Id = attributesList[i].id
                             => outputFC.feats[k].geom.inner = 0
              /\ (Processed(i) /\ ~SameBearings(i)) =>
                    (Len(InnerCallsOf(i)) = 1
                        <=> ParseRadius(rows[i].r2, desc.linearUnitName).t = "float")

\* The records at which an exception was reported.
FailedRecords == {messages[k].n : k \in {m \in DOMAIN messages :
                                           messages[m].kind = "exception"}}

\* C8: when a tool has failed while one record was being built and the run has
\* ended, every other record of the batch with differing bearings and
\* admissible radii has been gone through by the loop and has its shape, tagged
\* with its own id, in the output.
C8_OtherRecordsSurvive ==
    (pc = "done" /\ FailedRecords # {} /\ Len(attributesList) = Len(rows)) =>
        \A j \in Records \ FailedRecords :
            (~SameBearings(j) /\ ValidRadii(j)) =>
                /\ Processed(j)
                /\ Len(ShapesWithId(outputFC.feats, attributesList[j].id)) = 1

\* C9: a record with an outer radius <= 0, or an inner radius <= 0 or >= the
\* outer radius, is rejected as a whole and reported: no call and no tool is
\* logged for it, no Buffer runs with such a radius, and an error message
\* follows.
C9_InvalidRadiusRejected ==
    /\ \A k \in DOMAIN log : log[k].op = "Buffer" =>
          /\ log[k].r > 0
          /\ log[k].by = "innerWedgeErase" => log[k].r < attributesList[log[k].rec].r1
    /\ \A i \in Records : ~ValidRadii(i) =>
          /\ \A k \in DOMAIN log : log[k].rec # i
          /\ Processed(i) => \E k \in DOMAIN messages : messages[k].sev = 2

\* C10: without a tool failure, whenever the loop of createWedges is at its
\* head the in_memory workspace holds exactly the objects listed in mergeList,
\* all of them per-record results nextWedge<k>: circle, WedgeA, WedgeB, WedgeC,
\* oWedge and oWedge2 are gone.
C10_WorkspaceCleanAtLoopHead ==
    pc = "cw_for" =>
        /\ DOMAIN inMemory = {mergeList[k] : k \in DOMAIN mergeList}
        /\ \A n \in DOMAIN inMemory : n.n = "nextWedge"

\* C10 witness: the loop is back at its head after a record that was split in
\* two halves, dissolved and cut by an inner radius.
C10_Witness ==
    /\ pc = "cw_for"
    /\ idx = 2
    /\ InSplitRange(1)
    /\ Len(CallsOf(1)) = 2
    /\ Len(InnerCallsOf(1)) = 1
    /\ Len(mergeList) = 1

\* createWedges has returned to processWedges.
CreateWedgesReturned == pc \in {"pw_join", "done"} /\ idx >= 1

\* The names of the intermediate objects of one record's construction.
IntermediateNames == { Nm(n) : n \in {"circle", "WedgeA", "WedgeB", "WedgeC",
                                      "oWedge", "oWedge2"} }

\* C11: once createWedges has merged mergeList into the output feature class
\* and returned, the in_memory workspace holds no object: no per-record result
\* nextWedge<k> and no intermediate object.
C11_NothingLeftAfterMerge ==
    (CreateWedgesReturned /\ outputFC.exists) => DOMAIN inMemory = {}

\* C12: on every exit path, a failing tool included, the objects obtained so
\* far are released: outside createOneWedge and innerWedgeErase there is no
\* circle, and once createWedges has returned there is no circle, WedgeA,
\* WedgeB, WedgeC, oWedge or oWedge2.
C12_ReleasedOnEveryExit ==
    /\ ~InCallee => Nm("circle") \notin DOMAIN inMemory
    /\ CreateWedgesReturned => IntermediateNames \cap DOMAIN inMemory = {}

\* What createOneWedge gives for two bearings and a radius when nothing else
\* touches the workspace.
SoloSector(firstAngle, secondAngle, r) ==
    LET f == CallOne(firstAngle, secondAngle, r, "oWedge", "direct")
        op == IF ClipEraseTest(firstAngle, secondAngle)
              THEN (IF f.booEraseWedge = TRUE THEN "Erase" ELSE "Clip")
              ELSE "Copy"
        circle == IF r > 0 THEN BufferFC(r) ELSE EmptyBuffer
        shaped == IF op = "Copy" THEN circle
                  ELSE TriangleFC(circle, op, firstAngle, secondAngle)
    IN [shaped EXCEPT !.fields = @ \ {"BUFF_DIST"}]

\* What innerWedgeErase makes of a sector for a record alone.
SoloInner(wedge, sector) ==
    IF ArcbandTest(wedge)
    THEN EraseInnerFC(sector, IF wedge.r2.v > 0 THEN BufferFC(wedge.r2.v)
                              ELSE EmptyBuffer)
    ELSE sector

\* The shape createOneWedge and innerWedgeErase give a record that is built
\* by one createOneWedge call.
SoloShape(wedge) ==
    SoloInner(wedge, SoloSector(Mod360(wedge.a), Mod360(wedge.b), wedge.r1))

\* C13: records built by interleaved builders come out as when each is built
\* alone: a builder that has finished holds the shape its record has when
\* built with the workspace to itself.
C13_BuildersIndependent ==
    \A w \in DOMAIN workers :
        workers[w].pc = "done" =>
            /\ workers[w].result.found
            /\ workers[w].result.fc = SoloShape(attributesList[workers[w].rec])

\* The (id, shape) pairs a record contributes on its own account: none for
\* equal bearings, else its sector (two halves dissolved for a sweep in the
\* split range), cut by the inner radius and tagged with the record's id.
PairsOfRecord(wedge) ==
    LET angleA == Mod360(wedge.a)
        angleB == Mod360(wedge.b)
        theta == Mod360(angleB - angleA)
        mid == Mod360(angleA + Half(theta))
        sector == IF SplitTest(theta)
                  THEN DissolveFC(MergeFC(
                           SoloSector(angleA, mid, wedge.r1),
                           SoloSector(mid, Mod360(mid + Half(theta)), wedge.r1)))
                  ELSE SoloSector(angleA, angleB, wedge.r1)
        shape == SoloInner(wedge, sector)
    IN IF wedge.a = wedge.b THEN {}
       ELSE { <<wedge.id, shape.feats[k].geom>> : k \in DOMAIN shape.feats }

PairsOfOutput == { <<outputFC.feats[k].Id, outputFC.feats[k].geom>> :
                     k \in DOMAIN outputFC.feats }

\* C14: the (id, shape) pairs of the output are those each record contributes
\* on its own account, whatever its place in the batch and whatever records
\* come before it; and a batch that was gone through without an error message
\* has its output unless all its records have equal bearings.
C14_OutputIndependentOfOrder ==
    /\ outputFC.exists =>
          PairsOfOutput = UNION { PairsOfRecord(attributesList[i]) : i \in Records }
    /\ (pc = "done" /\ \A k \in DOMAIN messages : messages[k].sev # 2)
          => outputFC.exists

\* C14 witness: the output of a batch of a record that was split and dissolved
\* followed by one built directly, each with its shape.
C14_Witness ==
    /\ outputFC.exists
    /\ Len(attributesList) = 2
    /\ InSplitRange(1)
    /\ ~InSplitRange(2)
    /\ Len(outputFC.feats) = 2
    /\ outputFC.feats[1].Id # outputFC.feats[2].Id

\* C15: bearings never lead to an error: for a table that was read without
\* complaint and whose radii are admissible, createWedges and the join report
\* no error, whatever the bearings are, also when all records have equal
\* bearings.
C15_AnglesNeverAnError ==
    (Len(rows) > 0 /\ Len(attributesList) = Len(rows)
        /\ \A i \in Records : ValidRadii(i)) =>
        \A k \in DOMAIN messages : messages[k].sev # 2

\* Row n of the table has an outer-radius text that parseRadius turns down, or,
\* with the inner-radius field present, an inner-radius text other than '' and
\* ' ' that parseRadius turns down.
BadOuter(n) == ParseRadius(rows[n].r1, desc.linearUnitName) = None
BadInner(n) == /\ gotRadius2
               /\ rows[n].r2 \notin {Txt(<<>>), Txt(<<" ">>)}
               /\ ParseRadius(rows[n].r2, desc.linearUnitName) = None
BadRows == { n \in DOMAIN rows : BadOuter(n) \/ BadInner(n) }
FirstBadRow == CHOOSE n \in BadRows : \A m \in BadRows : n <= m

\* The one error message a table with a defect is answered with.
TableError ==
    IF FieldsTest(fieldList) # "ok" THEN Msg(2, FieldsTest(fieldList), 0)
    ELSE Msg(2, IF BadOuter(FirstBadRow) THEN "format_r1" ELSE "format_r2",
             FirstBadRow)

\* C16: the whole table is validated before anything is built.  createWedges
\* starts only when every row has been read and accepted; for a table with a
\* missing or wrongly typed field or with a row whose radius text does not
\* parse, createWedges is never called, nothing is built and no output is
\* written, and the tool ends with one error message that names the field and
\* the 1-based position of the first such row.
C16_ValidatedBeforeBuilding ==
    /\ idx >= 1 => (Len(attributesList) = Len(rows) /\ BadRows = {}
                      /\ FieldsTest(fieldList) = "ok")
    /\ (ProjectionTest(desc) = "ok" /\ (FieldsTest(fieldList) # "ok" \/ BadRows # {})) =>
          /\ idx = 0
          /\ log = <<>>
          /\ DOMAIN inMemory = {}
          /\ ~outputFC.exists
          /\ pc = "done" => messages = <<TableError>>

\* C16 witness: the tool has ended on the second row's inner-radius text after
\* a first row that was accepted.
C16_Witness ==
    /\ pc = "done"
    /\ Len(rows) = 2
    /\ BadRows = {2}
    /\ BadInner(2)
    /\ Len(attributesList) = 1
    /\ messages = <<Msg(2, "format_r2", 2)>>

\* The input's spatial reference is one processWedges does not work on.
TurnedAway == desc.name \in {"Unknown", "GCS_WGS_1984"}
                 \/ desc.linearUnitName = "Degree"

\* C17: for an input whose spatial reference is named "Unknown" or
\* "GCS_WGS_1984" or whose linear unit is "Degree", the tool goes from its
\* start straight to its end with one error message: no row is read, no radius
\* parsed, createWedges is not called, nothing is built and nothing is joined.
C17_UnprojectedInputRefused ==
    TurnedAway =>
        /\ pc \in {"pw_describe", "done"}
        /\ rowNum = 1
        /\ attributesList = <<>>
        /\ idx = 0
        /\ log = <<>>
        /\ DOMAIN inMemory = {}
        /\ ~outputFC.exists
        /\ pc = "done" => (Len(messages) = 1 /\ messages[1].sev = 2
                             /\ messages[1].kind \in {"no_projection", "wgs84",
                                                      "geographic"})

\* C17 witness: the tool has ended on a one-row table of a geographic input
\* other than WGS84.
C17_Witness ==
    /\ pc = "done"
    /\ desc.name = "GCS_North_American_1983"
    /\ desc.linearUnitName = "Degree"
    /\ Len(rows) = 1
    /\ messages = <<Msg(2, "geographic", 0)>>

\* C18: one record takes at most one bisection.  createOneWedge is called not
\* at all for equal bearings, never more than twice, and for a record that has
\* been gone through once unless its sweep is in (135, 225), then twice; each
\* of the two sub-sweeps is above 0 and at most 135 degrees, so strictly inside
\* (0, 180) and outside (135, 225).
C18_AtMostOneBisection ==
    \A i \in Records :
        /\ SameBearings(i) => Len(CallsOf(i)) = 0
        /\ Len(CallsOf(i)) <= 2
        /\ (Processed(i) /\ ~SameBearings(i)) =>
              Len(CallsOf(i)) = IF InSplitRange(i) THEN 2 ELSE 1
        /\ InSplitRange(i) =>
              \A k \in DOMAIN CallsOf(i) :
                  /\ 0 < SweepOfCall(CallsOf(i)[k])
                  /\ SweepOfCall(CallsOf(i)[k]) <= Deg(135)

\* C18 witness: a batch is through in which an odd sweep of 151 whole degrees
\* was built in two calls and a whole turn in one.
C18_Witness ==
    /\ pc = "done"
    /\ outputFC.exists
    /\ \E i, j \in Records :
          /\ intFields /\ SweepOf(i) = Deg(151) /\ Len(CallsOf(i)) = 2
          /\ WholeTurn(j) /\ Len(CallsOf(j)) = 1

\* The progress messages of createWedges, one per record.
RecordMessages == SelectSeq(messages, LAMBDA m : m.kind \in {"skipping", "creating"})

\* C20: count goes up by one per record, skipped or created: at the loop head
\* it equals the position of the record, the message for the i-th record
\* carries the number i, and the names in mergeList are pairwise distinct, each
\* naming an object of the workspace that holds one record's shapes.
C20_CountPerRecord ==
    /\ pc = "cw_for" => count = idx
    /\ \A k \in DOMAIN RecordMessages : RecordMessages[k].n = k
    /\ \A j, k \in DOMAIN mergeList : j # k => mergeList[j] # mergeList[k]
    /\ pc = "cw_for" =>
          \A j, k \in DOMAIN mergeList :
              (j # k /\ mergeList[j] \in DOMAIN inMemory
                     /\ mergeList[k] \in DOMAIN inMemory) =>
                 \A x \in DOMAIN inMemory[mergeList[j]].feats :
                    \A y \in DOMAIN inMemory[mergeList[k]].feats :
                       inMemory[mergeList[j]].feats[x].Id
                          # inMemory[mergeList[k]].feats[y].Id

\* C20 witness: the loop is at its head after a skipped record and a created
\* one.
C20_Witness ==
    /\ pc = "cw_for"
    /\ idx = 3
    /\ count = 3
    /\ SameBearings(1)
    /\ mergeList = <<NextWedgeName(3)>>
    /\ Len(RecordMessages) = 2

\* parseRadius gets as far as line 336 with this text.
ReachesChain(t) ==
    /\ ~t.null
    /\ Len(Split(t.s)) = 2
    /\ NumberShapeOK(Split(t.s)[1])
    /\ Upper(Split(t.s)[2]) \in UnitNames

ParsedCells ==
    { rows[n].r1 : n \in {m \in DOMAIN rows : m < rowNum \/ pc = "done"} }
    \cup { rows[n].r2 : n \in {m \in DOMAIN rows :
                                   /\ gotRadius2
                                   /\ m <= Len(attributesList)
                                   /\ rows[m].r2 \notin {Txt(<<>>), Txt(<<" ">>)}} }

====
